---- MODULE Spec2Model ----
(***************************************************************************)
(* Model of the task-hierarchy reconstruction of the portfolio portal      *)
(* generator: build_task_hierarchy (create_portfolio_portal_v2.py, lines   *)
(* 104-125; create_portfolio_portal.py, lines 60-84, holds the same code). *)
(*                                                                         *)
(* A task is the dict parse_csv builds; only the fields the builder reads  *)
(* are kept: 'id' (last_task_id, the 1-based position of the task row) and *)
(* 'indent' (int(INDENT), any integer).  The 'children' field of each task *)
(* dict is the function children, indexed by task id.  Lists of task dicts *)
(* (root_tasks, task_stack, children) hold task ids, which stand for the   *)
(* references to the dicts.                                                *)
(*                                                                         *)
(* The module also holds the JavaScript buildHierarchy that the generated  *)
(* page runs (create_portfolio_portal_v2.py, lines 696-723), the sorting   *)
(* its renderers do, parse_csv (lines 41-102), update_portfolio.main and   *)
(* verify_priorities.  Each has its own variables and its own              *)
(* specification; a specification keeps the variables of the other parts   *)
(* idle.                                                                   *)
(***************************************************************************)
EXTENDS Integers, Sequences, FiniteSets, TLC

\* Longest input sequence of task records.
MaxLen == 4

\* Largest indent of an input record (the smallest is -1).
MaxIndent == 4

\* int(row.get('INDENT', 1)) yields any integer: zero and negative included.
Indents == -1 .. MaxIndent

VARIABLES
    tasks,       \* the argument: the list of task dicts, in file order
    pc,          \* position in build_task_hierarchy, or the exception raised
    idx,         \* number of tasks the for loop has taken so far
    root_tasks,  \* the list that is returned
    task_stack,  \* the stack of open ancestors
    children,    \* children[id]: the 'children' list of the task dict
    returned,    \* what earlier calls returned: argument, roots and the
                 \* children lists as they were at the return
    pushed,      \* history: the records put on task_stack, in order
    pops         \* history: the number of task_stack.pop() that returned

\* buildHierarchy (JavaScript)
VARIABLES
    jsTasks,     \* the argument 'tasks': an array of task objects
    jsPc,        \* position in buildHierarchy
    jsIdx,       \* number of elements of sortedTasks the forEach has taken
    taskMap,     \* taskMap[id]: the copy {...t, children: []} of task id
    roots,       \* the array that is returned
    sortedTasks, \* [...tasks].sort((a, b) => a.id - b.id)
    lastAtLevel  \* lastAtLevel[k]: id of the last task seen at indent k

\* parse_csv
VARIABLES
    rows,            \* the rows csv.DictReader yields
    csvPc,           \* position in parse_csv, or the exception raised
    rowIdx,          \* number of rows read so far
    sections,        \* the list 'sections'
    current_section, \* name of current_section, <<>> for None
    csv_tasks,       \* the list 'tasks' of parse_csv
    last_task_id     \* the counter last_task_id

\* The page around buildHierarchy
VARIABLES
    jsReturned,  \* what an earlier call of buildHierarchy returned
    view,        \* the renderer that has run: "list", "timeline", "" for none
    priorityOf,  \* priorityOf[id]: the 'priority' the renderer read
    datesOf,     \* datesOf[id]: the 'deadline' and 'date' the renderer read
    hierarchy,   \* the array buildHierarchy returned, as the renderer has it
    shown        \* shown[id]: the children of id in the order they are drawn

\* update_portfolio.main: the files it works on, and where it is
VARIABLES
    mainPc,      \* position in main, or how the run ended
    downloads,   \* content of DOWNLOADS_PATH, <<>> if the file does not exist
    portfolio,   \* content of PORTFOLIO_CSV, <<>> if the file does not exist
    backup_dir,  \* os.path.exists(BACKUP_DIR)
    backups,     \* backups[ts]: content of PORTFOLIO_<ts>.csv in BACKUP_DIR
    backed_up,   \* history: the content this run copied to a backup
    attempts,    \* history: the outcome of each shutil.move of this run
    entered,     \* history: input() returned in this run
    launched,    \* history: subprocess.run was called in this run
    runs         \* number of runs of main started so far

\* verify_priorities
VARIABLES
    vpRows,      \* the rows csv.DictReader yields
    vpPc,        \* position in the script
    vpIdx,       \* number of rows read so far
    vpTasks      \* the list 'tasks' of the script

pyVars == <<tasks, pc, idx, root_tasks, task_stack, children, returned,
            pushed, pops>>
jsVars == <<jsTasks, jsPc, jsIdx, taskMap, roots, sortedTasks, lastAtLevel>>
csvVars == <<rows, csvPc, rowIdx, sections, current_section, csv_tasks,
             last_task_id>>

renderVars == <<view, priorityOf, datesOf, hierarchy, shown>>
pageVars == <<jsReturned, renderVars>>
mainVars == <<mainPc, downloads, portfolio, backup_dir, backups, backed_up,
              attempts, entered, launched, runs>>
vpVars == <<vpRows, vpPc, vpIdx, vpTasks>>
otherVars == <<pageVars, mainVars, vpVars>>

vars == <<pyVars, jsVars, csvVars, otherVars>>

\* A part that is not running.
PyIdle ==
    /\ tasks = <<>> /\ pc = "idle" /\ idx = 0 /\ root_tasks = <<>>
    /\ task_stack = <<>> /\ children = <<>> /\ returned = <<>>
    /\ pushed = <<>> /\ pops = 0
JsIdle ==
    /\ jsTasks = <<>> /\ jsPc = "idle" /\ jsIdx = 0 /\ taskMap = <<>>
    /\ roots = <<>> /\ sortedTasks = <<>> /\ lastAtLevel = <<>>
CsvIdle ==
    /\ rows = <<>> /\ csvPc = "idle" /\ rowIdx = 0 /\ sections = <<>>
    /\ current_section = <<>> /\ csv_tasks = <<>> /\ last_task_id = 0
PageIdle ==
    /\ jsReturned = <<>> /\ view = "" /\ priorityOf = <<>> /\ datesOf = <<>>
    /\ hierarchy = <<>> /\ shown = <<>>
MainIdle ==
    /\ mainPc = "idle" /\ downloads = <<>> /\ portfolio = <<>>
    /\ backup_dir = FALSE /\ backups = <<>> /\ backed_up = <<>>
    /\ attempts = <<>> /\ entered = FALSE /\ launched = FALSE /\ runs = 0
VpIdle ==
    /\ vpRows = <<>> /\ vpPc = "idle" /\ vpIdx = 0 /\ vpTasks = <<>>
OtherIdle ==
    /\ PageIdle
    /\ MainIdle
    /\ VpIdle

\* The task lists parse_csv can produce: ids 1, 2, ... in file order.
TaskLists ==
    { [i \in DOMAIN f |-> [id |-> i, indent |-> f[i]]] :
        f \in UNION { [1..n -> Indents] : n \in 0..MaxLen } }

\* root_tasks = [] / task_stack = []
EmptyList == <<>>

\* The loop variable 'task' and the local 'indent' of the current iteration.
task == tasks[idx]
indent == tasks[idx].indent

\* Variant with the comparison off by one: len(task_stack) > indent.
WhileCondOffByOne(stack, k) == Len(stack) > k

\* while len(task_stack) >= indent
WhileCond(stack, k) == Len(stack) >= k

\* task_stack.pop()
Pop(stack) == SubSeq(stack, 1, Len(stack) - 1)

\* Variant that inserts at the front: root_tasks.insert(0, task).
AppendRootFront(lst, id) == <<id>> \o lst

\* root_tasks.append(task)
AppendRootList(lst, id) == Append(lst, id)

\* Variant that inserts at the front: parent['children'].insert(0, task).
AddChildFront(ch, stack, id) ==
    [ch EXCEPT ![stack[Len(stack)]] = <<id>> \o @]

\* Variant that takes the bottom of the stack: parent = task_stack[0].
AddChildToBottom(ch, stack, id) ==
    [ch EXCEPT ![stack[1]] = Append(@, id)]

\* parent = task_stack[-1]; parent['children'].append(task)
AddChild(ch, stack, id) ==
    [ch EXCEPT ![stack[Len(stack)]] = Append(@, id)]

\* Variant that keeps the children list the dict already has.
ResetChildrenForgotten(ch, id) == ch

\* task['children'] = []
ResetChildren(ch, id) == [ch EXCEPT ![id] = <<>>]

\* Variant that leaves the record off the stack.
PushForgotten(stack, id) == stack

\* task_stack.append(task)
Push(stack, id) == Append(stack, id)

Init ==
    /\ tasks \in TaskLists
    /\ pc = "for"
    /\ idx = 0
    /\ root_tasks = EmptyList
    /\ task_stack = EmptyList
    /\ children = [i \in 1..Len(tasks) |-> <<>>]
    /\ returned = <<>>
    /\ pushed = <<>>
    /\ pops = 0
    /\ JsIdle
    /\ CsvIdle
    /\ OtherIdle

\* for task in tasks: task['children'] = []; indent = task['indent']
ForTask ==
    /\ pc = "for"
    /\ idx < Len(tasks)
    /\ idx' = idx + 1
    /\ children' = ResetChildren(children, tasks[idx + 1].id)
    /\ pc' = "while"
    /\ UNCHANGED <<tasks, root_tasks, task_stack>>
    /\ UNCHANGED <<returned, pushed, pops, jsVars, csvVars, otherVars>>

\* while len(task_stack) >= indent: task_stack.pop()   (stack not empty)
WhilePop ==
    /\ pc = "while"
    /\ WhileCond(task_stack, indent)
    /\ task_stack # <<>>
    /\ task_stack' = Pop(task_stack)
    /\ UNCHANGED <<tasks, pc, idx, root_tasks, children>>
    /\ pops' = pops + 1
    /\ UNCHANGED <<returned, pushed, jsVars, csvVars, otherVars>>

\* The same statement on an empty list: list.pop() raises IndexError, which
\* nothing catches.
WhilePopEmpty ==
    /\ pc = "while"
    /\ WhileCond(task_stack, indent)
    /\ task_stack = <<>>
    /\ pc' = "IndexError"
    /\ UNCHANGED <<tasks, idx, root_tasks, task_stack, children>>
    /\ UNCHANGED <<returned, pushed, pops, jsVars, csvVars, otherVars>>

\* if indent == 1: root_tasks.append(task); task_stack = [task]
AppendRoot ==
    /\ pc = "while"
    /\ ~WhileCond(task_stack, indent)
    /\ indent = 1
    /\ root_tasks' = AppendRootList(root_tasks, task.id)
    /\ task_stack' = <<task.id>>
    /\ pc' = "for"
    /\ UNCHANGED <<tasks, idx, children>>
    /\ pushed' = Append(pushed, task.id)
    /\ UNCHANGED <<returned, pops, jsVars, csvVars, otherVars>>

\* else: if task_stack: parent['children'].append(task)
\*       task_stack.append(task)
AppendChild ==
    /\ pc = "while"
    /\ ~WhileCond(task_stack, indent)
    /\ indent # 1
    /\ children' = IF task_stack # <<>>
                   THEN AddChild(children, task_stack, task.id)
                   ELSE children
    /\ task_stack' = Push(task_stack, task.id)
    /\ pc' = "for"
    /\ UNCHANGED <<tasks, idx, root_tasks>>
    /\ pushed' = Append(pushed, task.id)
    /\ UNCHANGED <<returned, pops, jsVars, csvVars, otherVars>>

\* Variant that rejects an input from which no root was built.
ReturnRaisesOnEmpty ==
    /\ pc = "for"
    /\ idx = Len(tasks)
    /\ pc' = IF root_tasks = <<>> THEN "ValueError" ELSE "done"
    /\ UNCHANGED <<tasks, idx, root_tasks, task_stack, children>>
    /\ UNCHANGED <<returned, pushed, pops, jsVars, csvVars, otherVars>>

\* return root_tasks
Return ==
    /\ pc = "for"
    /\ idx = Len(tasks)
    /\ pc' = "done"
    /\ UNCHANGED <<tasks, idx, root_tasks, task_stack, children>>
    /\ UNCHANGED <<returned, pushed, pops, jsVars, csvVars, otherVars>>

\* Every subsequence of s: the list itself, or what a filter leaves of it.
SubSeqs(s) ==
    { SelectSeq(s, LAMBDA t : t.id \in S) :
        S \in SUBSET { s[i].id : i \in 1..Len(s) } }

\* A later call of build_task_hierarchy, on the same task dicts or on some
\* of them (one section's tasks, say): root_tasks and task_stack are new
\* lists, the dicts and their 'children' fields are the ones the first
\* call left.
CallAgain ==
    /\ pc = "done"
    /\ returned = <<>>
    /\ returned' = <<[tasks |-> tasks, roots |-> root_tasks,
                      children |-> children]>>
    /\ tasks' \in SubSeqs(tasks)
    /\ pc' = "for"
    /\ idx' = 0
    /\ root_tasks' = EmptyList
    /\ task_stack' = EmptyList
    /\ pushed' = <<>>
    /\ pops' = 0
    /\ UNCHANGED <<children, jsVars, csvVars, otherVars>>

Next ==
    \/ ForTask
    \/ WhilePop
    \/ WhilePopEmpty
    \/ AppendRoot
    \/ AppendChild
    \/ Return

Spec == Init /\ [][Next]_vars

\* Two calls in a row.
NextCalls ==
    \/ ForTask
    \/ WhilePop
    \/ WhilePopEmpty
    \/ AppendRoot
    \/ AppendChild
    \/ Return
    \/ CallAgain

SpecCalls == Init /\ [][NextCalls]_vars

(***************************************************************************)
(* Vocabulary of the properties.                                           *)
(***************************************************************************)

Ids == 1..Len(tasks)
Range(s) == { s[i] : i \in 1..Len(s) }
IndentOf(n) == tasks[n].indent

\* The records whose 'children' list holds n.
Parents(n) == { p \in Ids : n \in Range(children[p]) }

\* The places that hold n: <<0, i>> is position i of root_tasks, <<p, i>>
\* is position i of the children list of p.
OwnerSlots(n) ==
    { s \in (0..Len(tasks)) \X (1..Len(tasks)) :
        \/ s[1] = 0 /\ s[2] <= Len(root_tasks) /\ root_tasks[s[2]] = n
        \/ s[1] > 0 /\ s[2] <= Len(children[s[1]])
                    /\ children[s[1]][s[2]] = n }

\* Pre-order traversal of a list of nodes: each node, then its children.
RECURSIVE PreOrder(_)
PreOrder(list) ==
    IF list = <<>> THEN <<>>
    ELSE <<Head(list)>> \o PreOrder(children[Head(list)])
                        \o PreOrder(Tail(list))

\* The nodes of the returned forest.
InForest(n) == n \in Range(PreOrder(root_tasks))

NonDecreasing(s) == \A i \in 1..(Len(s) - 1) : s[i] <= s[i + 1]
Increasing(s) == \A i \in 1..(Len(s) - 1) : s[i] < s[i + 1]

\* The first n records have no indent gap: the first has indent 1, and no
\* record is more than one level deeper than the record before it.
GapFreeUpTo(n) ==
    /\ n >= 1
    /\ IndentOf(1) = 1
    /\ \A i \in 2..n : IndentOf(i) >= 1 /\ IndentOf(i) <= IndentOf(i - 1) + 1

\* The parent of n is the most recent preceding record of indent k-1, and no
\* record of indent <= k-1 lies between the two.
ParentIsOpenAtLevelAbove(n) ==
    \E p \in 1..(n - 1) :
        /\ Parents(n) = {p}
        /\ IndentOf(p) = IndentOf(n) - 1
        /\ \A m \in (p + 1)..(n - 1) : IndentOf(m) > IndentOf(n) - 1

(***************************************************************************)
(* C1.  Original statement: in the forest built from records with indent   *)
(* >= 1, every non-root node with indent k > 1 has as its parent the most  *)
(* recent preceding record of indent exactly k-1, with no record of indent *)
(* <= k-1 between them.                                                    *)
(***************************************************************************)
C1_ParentAtLevelAbove ==
    pc = "done" =>
        \A n \in Ids :
            (InForest(n) /\ n \notin Range(root_tasks) /\ IndentOf(n) > 1)
                => ParentIsOpenAtLevelAbove(n)

\* C1 as amended: the same, for every record with indent k > 1 such that the
\* input up to and including it has no indent gap.
C1_ParentAtLevelAboveGapFree ==
    pc = "done" =>
        \A n \in Ids :
            (GapFreeUpTo(n) /\ n \notin Range(root_tasks) /\ IndentOf(n) > 1)
                => ParentIsOpenAtLevelAbove(n)

\* A gap-free input whose last record is attached to a parent that is not
\* the record right before it, after a deeper branch has been closed.
C1_Witness ==
    /\ pc = "done"
    /\ \E n \in Ids :
        /\ GapFreeUpTo(n)
        /\ IndentOf(n) > 1
        /\ \E p \in 1..(n - 2) : Parents(n) = {p} /\ IndentOf(n - 1) > IndentOf(n)

(***************************************************************************)
(* C2.  After the build every input record has exactly one owner: it is in *)
(* root_tasks or in the children list of exactly one record, once.         *)
(***************************************************************************)
C2_ExactlyOneOwner ==
    pc = "done" => \A n \in Ids : Cardinality(OwnerSlots(n)) = 1

(***************************************************************************)
(* C3.  A record with indent k > 1 that finds no open ancestor (the stack  *)
(* is empty after popping) is appended to root_tasks; the first record of  *)
(* an input always finds the stack empty, so [(1,3)] yields the root 1.    *)
(***************************************************************************)
C3_OrphanPromotedToRoot ==
    (pc \in {"for", "done"} /\ idx >= 1 /\ IndentOf(1) > 1)
        => (Len(root_tasks) >= 1 /\ root_tasks[1] = 1)

(***************************************************************************)
(* C4.  The builder never fails on a record whose indent is zero or        *)
(* negative: the record is treated as if its indent were 1, it becomes a   *)
(* root, and the remaining records are processed.                          *)
(***************************************************************************)
C4_BadIndentClamped ==
    /\ pc # "IndexError"
    /\ pc = "done" =>
        \A n \in Ids : IndentOf(n) <= 0 => n \in Range(root_tasks)

(***************************************************************************)
(* C5.  A pre-order traversal of the returned forest visits ids in         *)
(* non-decreasing order: every parent precedes its children, and siblings  *)
(* (roots included) keep their input order.                                *)
(***************************************************************************)
C5_PreOrderKeepsInputOrder ==
    pc = "done" =>
        /\ NonDecreasing(PreOrder(root_tasks))
        /\ Increasing(root_tasks)
        /\ \A p \in Ids :
            /\ Increasing(children[p])
            /\ \A c \in Range(children[p]) : p < c

\* A forest in which a node has two children, the first of which has a
\* child of its own.
C5_Witness ==
    /\ pc = "done"
    /\ \E p \in Ids :
        /\ InForest(p)
        /\ Len(children[p]) >= 2
        /\ children[children[p][1]] # <<>>

(***************************************************************************)
(* C6.  When every record has indent 1, root_tasks holds every record, in  *)
(* input order, and every children list is empty.                          *)
(***************************************************************************)
C6_FlatList ==
    (pc = "done" /\ \A n \in Ids : IndentOf(n) = 1) =>
        /\ root_tasks = [i \in Ids |-> i]
        /\ \A n \in Ids : children[n] = <<>>

C6_Witness ==
    /\ pc = "done"
    /\ Len(tasks) >= 3
    /\ \A n \in Ids : IndentOf(n) = 1

(***************************************************************************)
(* C7.  Sibling grouping: when a record p of indent k is followed by a run *)
(* of consecutive records of indent k+1 and then by a record of indent 1,  *)
(* the run is the children list of p, in input order, and the indent-1     *)
(* record is a root (with no children when it ends the input).             *)
(***************************************************************************)
C7_SiblingGrouping ==
    pc = "done" =>
        \A p \in Ids, q \in Ids :
            ( /\ p < q
              /\ q < Len(tasks)
              /\ IndentOf(p) >= 1
              /\ \A m \in (p + 1)..q : IndentOf(m) = IndentOf(p) + 1
              /\ IndentOf(q + 1) = 1 )
            => /\ children[p] = [j \in 1..(q - p) |-> p + j]
               /\ q + 1 \in Range(root_tasks)
               /\ (q + 1 = Len(tasks) => children[q + 1] = <<>>)

(***************************************************************************)
(* C8.  Re-opening: when a record b of indent k arrives after an earlier   *)
(* record a of indent k and a's deeper descendants, every later record of  *)
(* indent k+1 that arrives before the next record of indent <= k is a      *)
(* child of b, and of no other record.                                     *)
(***************************************************************************)
C8_Reopening ==
    pc = "done" =>
        \A a \in Ids, b \in Ids, c \in Ids :
            ( /\ a < b /\ b < c
              /\ IndentOf(a) >= 1
              /\ IndentOf(b) = IndentOf(a)
              /\ \A m \in (a + 1)..(b - 1) : IndentOf(m) > IndentOf(a)
              /\ IndentOf(c) = IndentOf(b) + 1
              /\ \A m \in (b + 1)..(c - 1) : IndentOf(m) > IndentOf(b) )
            => Parents(c) = {b}

(***************************************************************************)
(* C9.  Single chain: for n records of indents 1, 2, ..., n the only root  *)
(* is the first record, record i < n has the single child i+1, and record  *)
(* n has no children.                                                      *)
(***************************************************************************)
IsChain == Len(tasks) >= 1 /\ \A i \in Ids : IndentOf(i) = i

C9_SingleChain ==
    (pc = "done" /\ IsChain) =>
        /\ root_tasks = <<1>>
        /\ \A i \in Ids :
            children[i] = IF i < Len(tasks) THEN <<i + 1>> ELSE <<>>

C9_Witness == pc = "done" /\ IsChain /\ Len(tasks) >= 3

(***************************************************************************)
(* C10.  On an empty record sequence the builder raises nothing and        *)
(* returns an empty root_tasks.                                            *)
(***************************************************************************)
C10_EmptyInput ==
    tasks = <<>> => (pc \in {"for", "done"} /\ root_tasks = <<>>)

C10_Witness == pc = "done" /\ tasks = <<>> /\ root_tasks = <<>>

(***************************************************************************)
(* Vocabulary of the properties about repeated calls.                      *)
(***************************************************************************)

\* The nodes of the forest with roots 'list' and children lists 'ch'.
RECURSIVE NodesOf(_, _)
NodesOf(ch, list) ==
    IF list = <<>> THEN {}
    ELSE {Head(list)} \cup NodesOf(ch, ch[Head(list)])
                      \cup NodesOf(ch, Tail(list))

\* The 'children' fields of the task dicts when the running call began.
ChildrenAtEntry ==
    IF returned = <<>> THEN [i \in DOMAIN children |-> <<>>]
    ELSE returned[1].children

(***************************************************************************)
(* C11.  Building twice from the same input sequence yields the same       *)
(* forest: the roots of the second call are the roots the first call       *)
(* returned, in the same order, and every children list is what it was     *)
(* when the first call returned.                                           *)
(***************************************************************************)
C11_SameForestTwice ==
    (pc = "done" /\ returned # <<>> /\ tasks = returned[1].tasks) =>
        /\ root_tasks = returned[1].roots
        /\ children = returned[1].children

\* A second call on the same records has returned a forest in which a node
\* has two children.
C11_Witness ==
    /\ pc = "done"
    /\ returned # <<>>
    /\ tasks = returned[1].tasks
    /\ \E p \in DOMAIN children :
        p \in NodesOf(children, root_tasks) /\ Len(children[p]) >= 2

(***************************************************************************)
(* C12.  The builder does not mutate its input: when the call returns,     *)
(* every 'children' field of the input records is what it was when the     *)
(* call began.                                                             *)
(***************************************************************************)
C12_InputNotMutated ==
    pc = "done" => children = ChildrenAtEntry

(***************************************************************************)
(* C13.  A forest returned by one call is unchanged by a later call on the *)
(* same records or on some of them: after the later call, every node of    *)
(* the first forest has the children list it had when the first call       *)
(* returned.                                                               *)
(***************************************************************************)
C13_ReturnedForestUnchanged ==
    (pc = "done" /\ returned # <<>>) =>
        \A n \in NodesOf(returned[1].children, returned[1].roots) :
            children[n] = returned[1].children[n]

(***************************************************************************)
(* C15.  Two consecutive records with the same indent are never made       *)
(* parent and child: the second gets the parent of the first, or both are  *)
(* roots.                                                                  *)
(***************************************************************************)
C15_EqualIndentAreSiblings ==
    pc = "done" =>
        \A n \in 1..(Len(tasks) - 1) :
            IndentOf(n + 1) = IndentOf(n) =>
                /\ n \notin Parents(n + 1)
                /\ Parents(n + 1) = Parents(n)
                /\ (n + 1 \in Range(root_tasks)) <=> (n \in Range(root_tasks))

(***************************************************************************)
(* C16.  Indent gap: when a record of indent k > 1 finds, after the        *)
(* popping, a stack that is not empty but shorter than k-1, it is appended *)
(* to the children of the top of the stack and root_tasks is left alone;   *)
(* a record of indent k > 1 is added to root_tasks only when the stack is  *)
(* empty.                                                                  *)
(***************************************************************************)
C16_GapAttachesToTop ==
    [][ (pc = "while" /\ pc' = "for" /\ indent > 1) =>
          /\ (task_stack # <<>> /\ Len(task_stack) < indent - 1) =>
                /\ children' =
                     [children EXCEPT ![task_stack[Len(task_stack)]] =
                                          Append(@, task.id)]
                /\ root_tasks' = root_tasks
          /\ (root_tasks' # root_tasks) => (task_stack = <<>>)
      ]_vars

\* A record has just been attached across a gap: the stack below it holds
\* at least two records and is shorter than its indent minus one.
C16_Witness ==
    /\ pc = "for"
    /\ idx >= 1
    /\ IndentOf(idx) > 1
    /\ Len(task_stack) >= 3
    /\ Len(task_stack) - 1 < IndentOf(idx) - 1
    /\ idx \in Range(children[task_stack[Len(task_stack) - 1]])

(***************************************************************************)
(* C17.  Stack invariant: after each record is processed, the node at      *)
(* position i of task_stack has indent exactly i and is the most recent    *)
(* still-open node of that indent, so the length of the stack is the       *)
(* indent of the record just processed.                                    *)
(***************************************************************************)
C17_StackIndexedByIndent ==
    (pc = "for" /\ idx >= 1) =>
        /\ Len(task_stack) = IndentOf(idx)
        /\ \A i \in 1..Len(task_stack) :
            /\ IndentOf(task_stack[i]) = i
            /\ \A m \in (task_stack[i] + 1)..idx : IndentOf(m) > i

(***************************************************************************)
(* C19.  The returned root_tasks is exactly the subsequence of the input   *)
(* records whose indent is 1, in input order; the records that precede the *)
(* first record of indent 1 are not in the returned forest.                *)
(***************************************************************************)
C19_RootsAreIndentOne ==
    pc = "done" =>
        /\ root_tasks =
             SelectSeq([i \in Ids |-> i], LAMBDA i : IndentOf(i) = 1)
        /\ \A n \in Ids :
             (\A m \in 1..n : IndentOf(m) # 1) => ~InForest(n)

\* The input starts with a record deeper than 1 that is given a child, and
\* a later record of indent 1 is returned as a root.
C19_Witness ==
    /\ pc = "done"
    /\ Len(tasks) >= 3
    /\ IndentOf(1) > 1
    /\ children[1] # <<>>
    /\ root_tasks # <<>>

(***************************************************************************)
(* buildHierarchy, the JavaScript function of the generated page           *)
(* (create_portfolio_portal_v2.py, lines 696-723).  A task object keeps    *)
(* the fields 'id' and 'indent'; taskMap[id] is the copy with its own      *)
(* 'children' array; roots, lastAtLevel and the children arrays hold ids,  *)
(* which stand for the references to the copies.                           *)
(***************************************************************************)

\* Longest array given to buildHierarchy, and the largest id in it.
MaxJsLen == 3

\* Largest indent of a task object given to buildHierarchy.
MaxJsIndent == 3

JsIndents == 0 .. MaxJsIndent

JsTaskObjects == [id : 1..MaxJsLen, indent : JsIndents]

\* The arrays of task objects with distinct ids, in any order.
JsInputs ==
    { a \in UNION { [1..n -> JsTaskObjects] : n \in 0..MaxJsLen } :
        \A i \in DOMAIN a, j \in DOMAIN a : i # j => a[i].id # a[j].id }

\* tasks.forEach(t => { taskMap[t.id] = { ...t, children: [] }; })
\* (a later element with the same id replaces an earlier one)
TaskMapOf(arr) ==
    [ i \in { arr[j].id : j \in DOMAIN arr } |->
        LET last == CHOOSE j \in DOMAIN arr :
                        /\ arr[j].id = i
                        /\ \A m \in DOMAIN arr : arr[m].id = i => m <= j
        IN  [id |-> i, indent |-> arr[last].indent, children |-> <<>>] ]

\* Insertion of t into an array sorted by id, after the elements that do not
\* compare greater (Array.prototype.sort is stable).
RECURSIVE InsertById(_, _)
InsertById(sorted, t) ==
    IF sorted = <<>> THEN <<t>>
    ELSE IF Head(sorted).id - t.id > 0 THEN <<t>> \o sorted
         ELSE <<Head(sorted)>> \o InsertById(Tail(sorted), t)

\* Variant that leaves the array in the order it came in.
SortByIdForgotten(arr) == arr

\* [...tasks].sort((a, b) => a.id - b.id)
RECURSIVE SortById(_)
SortById(arr) ==
    IF arr = <<>> THEN <<>>
    ELSE InsertById(SortById(SubSeq(arr, 1, Len(arr) - 1)), arr[Len(arr)])

\* The element of sortedTasks the forEach callback is called with.
jsTask == sortedTasks[jsIdx + 1]

\* Variant that looks two levels up.
JsParentLevelTwoUp(k) == k - 2

\* lastAtLevel[task.indent - 1]: the level the parent is looked up at
JsParentLevel(k) == k - 1

\* if (parent): lastAtLevel holds an entry for the level
HasLast(map, k) == k \in DOMAIN map

\* lastAtLevel[k] = t
SetLast(map, k, id) ==
    [ l \in (DOMAIN map) \cup {k} |-> IF l = k THEN id ELSE map[l] ]

\* roots.push(t)
JsPushRoot(arr, id) == Append(arr, id)

\* parent.children.push(t)
JsPushChild(tm, parent, id) ==
    [tm EXCEPT ![parent].children = Append(@, id)]

JsInit ==
    /\ jsTasks \in JsInputs
    /\ jsPc = "start"
    /\ jsIdx = 0
    /\ taskMap = <<>>
    /\ roots = <<>>
    /\ sortedTasks = <<>>
    /\ lastAtLevel = <<>>
    /\ PyIdle
    /\ CsvIdle
    /\ OtherIdle

\* const taskMap = {}; tasks.forEach(...); const roots = [];
\* const sortedTasks = [...tasks].sort(...); let lastAtLevel = {};
JsBuildMap ==
    /\ jsPc = "start"
    /\ taskMap' = TaskMapOf(jsTasks)
    /\ roots' = <<>>
    /\ sortedTasks' = SortById(jsTasks)
    /\ lastAtLevel' = <<>>
    /\ jsPc' = "forEach"
    /\ UNCHANGED <<jsTasks, jsIdx>>
    /\ UNCHANGED <<pyVars, csvVars, otherVars>>

\* if (task.indent === 1) { roots.push(t); lastAtLevel[1] = t; }
JsRoot ==
    /\ jsPc = "forEach"
    /\ jsIdx < Len(sortedTasks)
    /\ jsTask.indent = 1
    /\ roots' = JsPushRoot(roots, jsTask.id)
    /\ lastAtLevel' = SetLast(lastAtLevel, 1, jsTask.id)
    /\ jsIdx' = jsIdx + 1
    /\ UNCHANGED <<jsTasks, jsPc, taskMap, sortedTasks>>
    /\ UNCHANGED <<pyVars, csvVars, otherVars>>

\* else { const parent = lastAtLevel[task.indent - 1];
\*        if (parent) { parent.children.push(t); }
\*        lastAtLevel[task.indent] = t; }
JsChild ==
    /\ jsPc = "forEach"
    /\ jsIdx < Len(sortedTasks)
    /\ jsTask.indent # 1
    /\ HasLast(lastAtLevel, JsParentLevel(jsTask.indent))
    /\ taskMap' = JsPushChild(taskMap,
                              lastAtLevel[JsParentLevel(jsTask.indent)],
                              jsTask.id)
    /\ lastAtLevel' = SetLast(lastAtLevel, jsTask.indent, jsTask.id)
    /\ jsIdx' = jsIdx + 1
    /\ UNCHANGED <<jsTasks, jsPc, roots, sortedTasks>>
    /\ UNCHANGED <<pyVars, csvVars, otherVars>>

\* Variant without the else branch: a task whose parent is missing is put
\* nowhere.
JsOrphanDropped ==
    /\ jsPc = "forEach"
    /\ jsIdx < Len(sortedTasks)
    /\ jsTask.indent # 1
    /\ ~HasLast(lastAtLevel, JsParentLevel(jsTask.indent))
    /\ lastAtLevel' = SetLast(lastAtLevel, jsTask.indent, jsTask.id)
    /\ jsIdx' = jsIdx + 1
    /\ UNCHANGED <<jsTasks, jsPc, roots, taskMap, sortedTasks>>
    /\ UNCHANGED <<pyVars, csvVars, otherVars>>

\* else { const parent = lastAtLevel[task.indent - 1];
\*        if (parent) ... else { roots.push(t); }
\*        lastAtLevel[task.indent] = t; }
JsOrphanRoot ==
    /\ jsPc = "forEach"
    /\ jsIdx < Len(sortedTasks)
    /\ jsTask.indent # 1
    /\ ~HasLast(lastAtLevel, JsParentLevel(jsTask.indent))
    /\ roots' = JsPushRoot(roots, jsTask.id)
    /\ lastAtLevel' = SetLast(lastAtLevel, jsTask.indent, jsTask.id)
    /\ jsIdx' = jsIdx + 1
    /\ UNCHANGED <<jsTasks, jsPc, taskMap, sortedTasks>>
    /\ UNCHANGED <<pyVars, csvVars, otherVars>>

\* return roots;
JsReturn ==
    /\ jsPc = "forEach"
    /\ jsIdx = Len(sortedTasks)
    /\ jsPc' = "done"
    /\ UNCHANGED <<jsTasks, jsIdx, taskMap, roots, sortedTasks, lastAtLevel>>
    /\ UNCHANGED <<pyVars, csvVars, otherVars>>

JsNext ==
    \/ JsBuildMap
    \/ JsRoot
    \/ JsChild
    \/ JsOrphanRoot
    \/ JsReturn

SpecJS == JsInit /\ [][JsNext]_vars

(***************************************************************************)
(* Vocabulary of the properties of buildHierarchy.                         *)
(***************************************************************************)

JsIds == { jsTasks[i].id : i \in DOMAIN jsTasks }
JsAllPositive == \A i \in DOMAIN jsTasks : jsTasks[i].indent >= 1
JsIndentOf(n) == taskMap[n].indent
JsChildren == [ n \in DOMAIN taskMap |-> taskMap[n].children ]

\* The copies whose 'children' array holds n.
JsParents(n) == { p \in DOMAIN taskMap : n \in Range(taskMap[p].children) }

\* The places that hold n: <<0, i>> is position i of roots, <<p, i>> is
\* position i of the children array of p.
JsOwnerSlots(n) ==
    { s \in (0..MaxJsLen) \X (1..MaxJsLen) :
        \/ s[1] = 0 /\ s[2] <= Len(roots) /\ roots[s[2]] = n
        \/ s[1] \in DOMAIN taskMap
             /\ s[2] <= Len(taskMap[s[1]].children)
             /\ taskMap[s[1]].children[s[2]] = n }

(***************************************************************************)
(* C18.  In buildHierarchy (tasks of indent >= 1) the parent chosen for a   *)
(* task of indent k > 1 is still open: no task of indent <= k-1 lies       *)
(* between the parent and the task in id order.                            *)
(***************************************************************************)
C18_JsParentStillOpen ==
    (jsPc = "done" /\ JsAllPositive) =>
        \A n \in JsIds :
            JsIndentOf(n) > 1 =>
                \A p \in JsParents(n) :
                    \A m \in JsIds :
                        (p < m /\ m < n) => JsIndentOf(m) > JsIndentOf(n) - 1

(***************************************************************************)
(* C20.  buildHierarchy loses and duplicates nothing: for an array of      *)
(* tasks with distinct ids and indent >= 1, every task is held exactly     *)
(* once, by roots or by the children array of one node, and is a node of   *)
(* the returned forest; a task of indent k > 1 that no task of indent k-1  *)
(* precedes in id order is a root.                                         *)
(***************************************************************************)
C20_JsExactlyOnce ==
    (jsPc = "done" /\ JsAllPositive) =>
        \A n \in JsIds :
            /\ Cardinality(JsOwnerSlots(n)) = 1
            /\ n \in NodesOf(JsChildren, roots)
            /\ ( /\ JsIndentOf(n) > 1
                 /\ ~ \E m \in JsIds :
                        m < n /\ JsIndentOf(m) = JsIndentOf(n) - 1 )
               => n \in Range(roots)

\* An array that is not in id order has been built into a forest with a
\* promoted root (indent > 1) and a child.
C20_Witness ==
    /\ jsPc = "done"
    /\ JsAllPositive
    /\ Len(jsTasks) >= 2
    /\ jsTasks # sortedTasks
    /\ \E n \in JsIds : JsIndentOf(n) > 1 /\ n \in Range(roots)
    /\ \E n \in JsIds : JsParents(n) # {}

(***************************************************************************)
(* parse_csv (create_portfolio_portal_v2.py, lines 41-102).  A row keeps   *)
(* the columns the hierarchy depends on: TYPE and CONTENT (stripped), and  *)
(* INDENT as the characters of the field.  A task dict keeps 'id',         *)
(* 'indent', 'section' and 'notes' (the CONTENT of each note).             *)
(***************************************************************************)

\* Largest number of rows of the file.
MaxRows == 4

\* INDENT fields: two integer literals and a field that is no integer.
RawIndents == { <<"1">>, <<"2">>, <<"x">> }

CsvRowSet ==
    { [type |-> "section", content |-> c, indent |-> <<>>] : c \in {"A", "B"} }
    \cup { [type |-> "task", content |-> "t", indent |-> r] : r \in RawIndents }
    \cup { [type |-> "note", content |-> c, indent |-> <<>>] : c \in {"m", "n"} }
    \cup { [type |-> "", content |-> "", indent |-> <<>>] }

DigitValue ==
    [ c \in {"0", "1", "2", "3", "4", "5", "6", "7", "8", "9"} |->
        CASE c = "0" -> 0 [] c = "1" -> 1 [] c = "2" -> 2 [] c = "3" -> 3
          [] c = "4" -> 4 [] c = "5" -> 5 [] c = "6" -> 6 [] c = "7" -> 7
          [] c = "8" -> 8 [] c = "9" -> 9 ]

\* The digits of an integer literal, without its sign.
Unsigned(str) ==
    IF str # <<>> /\ str[1] \in {"-", "+"} THEN Tail(str) ELSE str

\* int(str) succeeds: an optional sign, then one digit or more.
IsIntLiteral(str) ==
    /\ Unsigned(str) # <<>>
    /\ \A i \in 1..Len(Unsigned(str)) : Unsigned(str)[i] \in DOMAIN DigitValue

RECURSIVE DigitsValue(_)
DigitsValue(ds) ==
    IF ds = <<>> THEN 0
    ELSE 10 * DigitsValue(SubSeq(ds, 1, Len(ds) - 1)) + DigitValue[ds[Len(ds)]]

\* int(row.get('INDENT', 1)) for a field that is an integer literal
IntOf(str) ==
    IF str[1] = "-" THEN 0 - DigitsValue(Unsigned(str))
    ELSE DigitsValue(Unsigned(str))

\* The row the for loop is at.
row == rows[rowIdx + 1]

\* Variant that does not advance the counter.
NextTaskIdStuck(n) == n

\* last_task_id += 1
NextTaskId(n) == n + 1

\* Variant that never reads current_section.
SectionNameForgotten(cur) == "No Section"

\* current_section['name'] if current_section else 'No Section'
SectionName(cur) == IF cur # <<>> THEN cur[1].name ELSE "No Section"

CsvInit ==
    /\ rows \in UNION { [1..n -> CsvRowSet] : n \in 0..MaxRows }
    /\ csvPc = "rows"
    /\ rowIdx = 0
    /\ sections = <<>>
    /\ current_section = <<>>
    /\ csv_tasks = <<>>
    /\ last_task_id = 0
    /\ PyIdle
    /\ JsIdle
    /\ OtherIdle

\* if row_type == 'section': current_section = {...}; sections.append(...)
CsvSection ==
    /\ csvPc = "rows"
    /\ rowIdx < Len(rows)
    /\ row.type = "section"
    /\ LET sec == [id |-> Len(sections), name |-> row.content]
       IN  /\ current_section' = <<sec>>
           /\ sections' = Append(sections, sec)
    /\ rowIdx' = rowIdx + 1
    /\ UNCHANGED <<rows, csvPc, csv_tasks, last_task_id>>
    /\ UNCHANGED <<pyVars, jsVars, otherVars>>

\* elif row_type == 'task': last_task_id += 1; task = {...}; tasks.append(task)
CsvTask ==
    /\ csvPc = "rows"
    /\ rowIdx < Len(rows)
    /\ row.type = "task"
    /\ IsIntLiteral(row.indent)
    /\ last_task_id' = NextTaskId(last_task_id)
    /\ csv_tasks' = Append(csv_tasks,
                           [id |-> last_task_id',
                            indent |-> IntOf(row.indent),
                            section |-> SectionName(current_section),
                            notes |-> <<>>])
    /\ rowIdx' = rowIdx + 1
    /\ UNCHANGED <<rows, csvPc, sections, current_section>>
    /\ UNCHANGED <<pyVars, jsVars, otherVars>>

\* The same branch when INDENT is no integer literal: int() raises
\* ValueError after last_task_id += 1, and nothing catches it.
CsvTaskBadIndent ==
    /\ csvPc = "rows"
    /\ rowIdx < Len(rows)
    /\ row.type = "task"
    /\ ~IsIntLiteral(row.indent)
    /\ last_task_id' = NextTaskId(last_task_id)
    /\ csvPc' = "ValueError"
    /\ UNCHANGED <<rows, rowIdx, sections, current_section, csv_tasks>>
    /\ UNCHANGED <<pyVars, jsVars, otherVars>>

\* Variant that attaches every note to the first task of the file.
CsvNoteToFirstTask ==
    /\ csvPc = "rows"
    /\ rowIdx < Len(rows)
    /\ row.type = "note"
    /\ last_task_id > 0
    /\ csv_tasks' = [csv_tasks EXCEPT ![1].notes = Append(@, row.content)]
    /\ rowIdx' = rowIdx + 1
    /\ UNCHANGED <<rows, csvPc, sections, current_section, last_task_id>>
    /\ UNCHANGED <<pyVars, jsVars, otherVars>>

\* elif row_type == 'note' and last_task_id > 0:
\*     tasks[last_task_id - 1]['notes'].append(note)
CsvNote ==
    /\ csvPc = "rows"
    /\ rowIdx < Len(rows)
    /\ row.type = "note"
    /\ last_task_id > 0
    /\ csv_tasks' = [csv_tasks EXCEPT ![last_task_id].notes =
                                          Append(@, row.content)]
    /\ rowIdx' = rowIdx + 1
    /\ UNCHANGED <<rows, csvPc, sections, current_section, last_task_id>>
    /\ UNCHANGED <<pyVars, jsVars, otherVars>>

\* No branch applies: another TYPE, or a note before the first task.
CsvSkip ==
    /\ csvPc = "rows"
    /\ rowIdx < Len(rows)
    /\ row.type \notin {"section", "task"}
    /\ ~(row.type = "note" /\ last_task_id > 0)
    /\ rowIdx' = rowIdx + 1
    /\ UNCHANGED <<rows, csvPc, sections, current_section, csv_tasks,
                   last_task_id>>
    /\ UNCHANGED <<pyVars, jsVars, otherVars>>

\* return sections, tasks
CsvReturn ==
    /\ csvPc = "rows"
    /\ rowIdx = Len(rows)
    /\ csvPc' = "done"
    /\ UNCHANGED <<rows, rowIdx, sections, current_section, csv_tasks,
                   last_task_id>>
    /\ UNCHANGED <<pyVars, jsVars, otherVars>>

CsvNext ==
    \/ CsvSection
    \/ CsvTask
    \/ CsvTaskBadIndent
    \/ CsvNote
    \/ CsvSkip
    \/ CsvReturn

SpecCsv == CsvInit /\ [][CsvNext]_vars

\* The number of task rows among the first n rows.
TaskRowsUpTo(n) == Cardinality({ i \in 1..n : rows[i].type = "task" })

(***************************************************************************)
(* C14.  While parse_csv reads the rows and when it returns, the task ids  *)
(* are unique and strictly increasing in file order: the n-th task row has *)
(* id n (tasks[i]['id'] == i+1 in Python's 0-based indexing), and section, *)
(* note and other rows consume no id.                                      *)
(***************************************************************************)
C14_IdsArePositions ==
    csvPc \in {"rows", "done"} =>
        /\ \A i \in 1..Len(csv_tasks) : csv_tasks[i].id = i
        /\ Len(csv_tasks) = TaskRowsUpTo(rowIdx)
        /\ last_task_id = Len(csv_tasks)

\* The file has been read to its end: two tasks, with a section row and a
\* note row among the rows.
C14_Witness ==
    /\ csvPc = "done"
    /\ Len(csv_tasks) >= 2
    /\ \E i \in 1..Len(rows) : rows[i].type = "section"
    /\ \E i \in 1..Len(rows) : rows[i].type = "note"

(***************************************************************************)
(* Both builders on the same task list: the generator embeds the list      *)
(* parse_csv returned in the page (allTasks, line 692), where              *)
(* buildHierarchy reads the 'id' and 'indent' the Python builder reads.    *)
(***************************************************************************)

\* json.dumps(tasks) / const allTasks = ...: the same records, in the same
\* order; 'id' and 'indent' are integers and are kept as they are.
JsonOf(lst) == [ i \in DOMAIN lst |-> [id |-> lst[i].id, indent |-> lst[i].indent] ]

\* buildHierarchy is called on the list the Python builder was given, once
\* the Python builder has returned or raised.
JsCall ==
    /\ pc \in {"done", "IndexError"}
    /\ jsPc = "idle"
    /\ jsTasks' = JsonOf(tasks)
    /\ jsPc' = "start"
    /\ UNCHANGED <<jsIdx, taskMap, roots, sortedTasks, lastAtLevel>>
    /\ UNCHANGED <<pyVars, csvVars, otherVars>>

NextBoth ==
    \/ ForTask
    \/ WhilePop
    \/ WhilePopEmpty
    \/ AppendRoot
    \/ AppendChild
    \/ Return
    \/ JsCall
    \/ JsBuildMap
    \/ JsRoot
    \/ JsChild
    \/ JsOrphanRoot
    \/ JsReturn

SpecBoth == Init /\ [][NextBoth]_vars

\* The input as the claim describes it: the first record has indent 1 and
\* no record is more than one level deeper than the record before it (ids
\* increase by construction of the list).
NoIndentGap ==
    /\ Len(tasks) >= 1 => IndentOf(1) = 1
    /\ \A i \in 2..Len(tasks) : IndentOf(i) <= IndentOf(i - 1) + 1

(***************************************************************************)
(* C21.  On every input without an indent gap, build_task_hierarchy and    *)
(* buildHierarchy produce the same forest: when the JavaScript builder has *)
(* returned, the Python builder has returned too, with the same roots in   *)
(* the same order and the same parent for every record.                    *)
(***************************************************************************)
C21_SameForest ==
    (jsPc = "done" /\ NoIndentGap) =>
        /\ pc = "done"
        /\ root_tasks = roots
        /\ \A n \in Ids : Parents(n) = JsParents(n)

\* The same, for inputs whose indents are all >= 1 as well.
C21_SameForestPositive ==
    (jsPc = "done" /\ NoIndentGap /\ \A n \in Ids : IndentOf(n) >= 1) =>
        /\ pc = "done"
        /\ root_tasks = roots
        /\ \A n \in Ids : Parents(n) = JsParents(n)

(***************************************************************************)
(* Two calls of buildHierarchy: the first on an array in any order, the    *)
(* second on the same task objects in id order, which is the order the     *)
(* renderers pass them in (allTasks is in id order and the filters keep    *)
(* the order).                                                             *)
(***************************************************************************)

\* The elements of arr in ascending id order (the ids are distinct): the
\* i-th element is the one that has i-1 smaller ids in the array.
InIdOrder(arr) ==
    [ i \in 1..Len(arr) |->
        CHOOSE t \in Range(arr) :
            Cardinality({ u \in Range(arr) : u.id < t.id }) = i - 1 ]

\* A later call on the array in id order: taskMap, roots and lastAtLevel
\* are new objects of the new call.
JsCallInIdOrder ==
    /\ jsPc = "done"
    /\ jsReturned = <<>>
    /\ jsReturned' = <<[tasks |-> jsTasks, roots |-> roots,
                        children |-> JsChildren]>>
    /\ jsTasks' = InIdOrder(jsTasks)
    /\ jsPc' = "start"
    /\ jsIdx' = 0
    /\ UNCHANGED <<taskMap, roots, sortedTasks, lastAtLevel>>
    /\ UNCHANGED <<pyVars, csvVars, renderVars, mainVars, vpVars>>

JsNextCalls ==
    \/ JsBuildMap
    \/ JsRoot
    \/ JsChild
    \/ JsOrphanRoot
    \/ JsReturn
    \/ JsCallInIdOrder

SpecJSCalls == JsInit /\ [][JsNextCalls]_vars

(***************************************************************************)
(* C22.  buildHierarchy processes the tasks in ascending id order whatever *)
(* the order of the array: the forest returned for an array with distinct  *)
(* ids (roots, and the children array of every task) is the forest         *)
(* returned for the same tasks in id order.                                *)
(***************************************************************************)
C22_OrderOfArrayIrrelevant ==
    (jsPc = "done" /\ jsReturned # <<>>) =>
        /\ jsTasks = InIdOrder(jsReturned[1].tasks)
        /\ Increasing([ i \in DOMAIN jsTasks |-> jsTasks[i].id ])
        /\ roots = jsReturned[1].roots
        /\ JsChildren = jsReturned[1].children

\* The first call was given an array that is not in id order, and both
\* calls built a forest with a child and two roots.
C22_Witness ==
    /\ jsPc = "done"
    /\ jsReturned # <<>>
    /\ jsReturned[1].tasks # jsTasks
    /\ Len(roots) >= 2
    /\ \E n \in JsIds : JsParents(n) # {}

(***************************************************************************)
(* The renderers of the page (create_portfolio_portal_v2.py):              *)
(* renderListView (lines 742-782) and renderTimeline (lines 998-1010) call *)
(* buildHierarchy on the tasks of a section and sort the returned array by *)
(* priority; renderTaskHierarchy (line 834) draws the children of a task   *)
(* in the order of its children array, renderTimelineTask (lines           *)
(* 1127-1146) draws a copy of the array sorted by deadline/date.  A date   *)
(* is the day number of the 'YYYY-MM-DD' string parse_date returns, 0 is   *)
(* null.                                                                   *)
(***************************************************************************)

\* Longest array of one section's tasks.
MaxPageLen == 3

\* Largest indent of a task of the section.
MaxPageIndent == 3

\* The tasks of a section as the renderers filter them out of allTasks: in
\* id order.
PageInputs ==
    { [i \in DOMAIN f |-> [id |-> i, indent |-> f[i]]] :
        f \in UNION { [1..n -> 1..MaxPageIndent] : n \in 0..MaxPageLen } }

\* 'priority' values of task objects: the highest and the default.
Priorities == {1, 4}

\* 'deadline' and 'date' of task objects: none, one of them, both.
DateFields ==
    { [deadline |-> 0, date |-> 0], [deadline |-> 1, date |-> 0],
      [deadline |-> 0, date |-> 2], [deadline |-> 2, date |-> 1] }

PageInit ==
    /\ jsTasks \in PageInputs
    /\ jsPc = "start"
    /\ jsIdx = 0
    /\ taskMap = <<>>
    /\ roots = <<>>
    /\ sortedTasks = <<>>
    /\ lastAtLevel = <<>>
    /\ PyIdle
    /\ CsvIdle
    /\ OtherIdle

\* Array.prototype.sort(compare) with a consistent comparator, which is
\* stable: element i comes after the elements it compares greater than and
\* after the earlier elements that do not compare greater than it.
\* greater holds the pairs <<a, b>> with compare(a, b) > 0.
SortedBy(arr, greater) ==
    LET Before(i) == { j \in 1..Len(arr) :
                         \/ <<arr[i], arr[j]>> \in greater
                         \/ j < i /\ <<arr[j], arr[i]>> \notin greater }
    IN  [ k \in 1..Len(arr) |->
            arr[CHOOSE i \in 1..Len(arr) : Cardinality(Before(i)) = k - 1] ]

\* hierarchy.sort((a, b) => a.priority - b.priority)
SortRoots(arr, prio) ==
    SortedBy(arr, { p \in Range(arr) \X Range(arr) :
                      prio[p[1]] - prio[p[2]] > 0 })

\* a.deadline || a.date
DateKey(d) == IF d.deadline # 0 THEN d.deadline ELSE d.date

\* The comparator of renderTimelineTask (lines 1129-1140) returns a value > 0
CompareDatesGreater(da, db) ==
    LET aDate == DateKey(da)
        bDate == DateKey(db)
    IN  IF aDate # 0 /\ bDate = 0 THEN FALSE
        ELSE IF aDate = 0 /\ bDate # 0 THEN TRUE
        ELSE IF aDate = 0 /\ bDate = 0 THEN FALSE
        ELSE aDate - bDate > 0

\* Variant that draws the dated children only.
SortChildrenDatedOnly(arr, dates) ==
    SortedBy(SelectSeq(arr, LAMBDA a : DateKey(dates[a]) # 0),
             { p \in Range(arr) \X Range(arr) :
                 CompareDatesGreater(dates[p[1]], dates[p[2]]) })

\* const sortedChildren = [...task.children].sort(...)
SortChildren(arr, dates) ==
    SortedBy(arr, { p \in Range(arr) \X Range(arr) :
                      CompareDatesGreater(dates[p[1]], dates[p[2]]) })

\* The tasks that are in some children array.
JsNonRoots == { n \in DOMAIN taskMap : JsParents(n) # {} }

\* renderListView, for one section: the roots sorted by priority, the
\* children of every task drawn in the order of task.children.
RenderListView ==
    /\ jsPc = "done"
    /\ view = ""
    /\ view' = "list"
    /\ \E prio \in [Range(roots) -> Priorities] :
        /\ priorityOf' = prio
        /\ hierarchy' = SortRoots(roots, prio)
    /\ datesOf' = <<>>
    /\ shown' = JsChildren
    /\ UNCHANGED <<jsReturned, jsVars, pyVars, csvVars, mainVars, vpVars>>

\* renderTimeline, for one section: the roots sorted by priority, the
\* children of every task drawn by renderTimelineTask, sorted by date.
RenderTimeline ==
    /\ jsPc = "done"
    /\ view = ""
    /\ view' = "timeline"
    /\ \E prio \in [Range(roots) -> Priorities] :
        /\ priorityOf' = prio
        /\ hierarchy' = SortRoots(roots, prio)
    /\ \E dates \in [JsNonRoots -> DateFields] :
        /\ datesOf' = dates
        /\ shown' = [ n \in DOMAIN taskMap |->
                        SortChildren(taskMap[n].children, dates) ]
    /\ UNCHANGED <<jsReturned, jsVars, pyVars, csvVars, mainVars, vpVars>>

PageNext ==
    \/ JsBuildMap
    \/ JsRoot
    \/ JsChild
    \/ JsOrphanRoot
    \/ JsReturn
    \/ RenderListView
    \/ RenderTimeline

SpecPage == PageInit /\ [][PageNext]_vars

\* a and b hold the same elements, each as often in a as in b.
IsPermutation(a, b) ==
    /\ Len(a) = Len(b)
    /\ \A x \in Range(a) \cup Range(b) :
        Cardinality({ i \in DOMAIN a : a[i] = x })
            = Cardinality({ i \in DOMAIN b : b[i] = x })

\* The tasks whose drawn children hold n.
ShownParents(n) == { p \in DOMAIN shown : n \in Range(shown[p]) }

(***************************************************************************)
(* C23.  The renderers' sorting only permutes siblings: in the drawn       *)
(* forest (hierarchy, shown) the roots are a permutation of the roots      *)
(* buildHierarchy returned, the children of every node are a permutation   *)
(* of its children array, every node has the same parent, and the nodes    *)
(* are the nodes of the returned forest.                                   *)
(***************************************************************************)
C23_SortPermutesSiblings ==
    view # "" =>
        /\ IsPermutation(hierarchy, roots)
        /\ DOMAIN shown = DOMAIN taskMap
        /\ \A n \in DOMAIN taskMap :
            /\ IsPermutation(shown[n], taskMap[n].children)
            /\ ShownParents(n) = JsParents(n)
        /\ NodesOf(shown, hierarchy) = NodesOf(JsChildren, roots)

\* The timeline has been drawn with two roots in another order than
\* buildHierarchy returned them, or with the children of a node in another
\* order than its children array.
C23_Witness ==
    /\ view = "timeline"
    /\ Len(jsTasks) = MaxPageLen
    /\ \/ Len(roots) >= 2 /\ hierarchy # roots /\ JsNonRoots # {}
       \/ \E n \in DOMAIN taskMap :
            Len(shown[n]) >= 2 /\ shown[n] # taskMap[n].children

(***************************************************************************)
(* C24.  build_task_hierarchy ends every finite input in one forward pass: *)
(* the run has ended only when it has returned with every record visited,  *)
(* no record is put on the stack twice, only visited records are on it,    *)
(* and the pops never outnumber the pushes.                                *)
(***************************************************************************)
C24_OneForwardPass ==
    /\ pops <= Len(pushed)
    /\ Increasing(pushed)
    /\ \A i \in 1..Len(pushed) : pushed[i] <= idx
    /\ pc \notin {"for", "while"} => (pc = "done" /\ idx = Len(tasks))

\* The same, for inputs whose indents are all >= 1.
C24_OneForwardPassPositive ==
    (\A n \in Ids : IndentOf(n) >= 1) => C24_OneForwardPass

\* The position in the file of the k-th task row.
TaskRowPos(k) ==
    CHOOSE i \in 1..Len(rows) : rows[i].type = "task" /\ TaskRowsUpTo(i) = k

\* The CONTENT of the note rows at the positions a+1 .. b, in file order.
NoteContents(a, b) ==
    LET notes == SelectSeq(SubSeq(rows, a + 1, b), LAMBDA r : r.type = "note")
    IN  [ i \in 1..Len(notes) |-> notes[i].content ]

\* The notes that follow the k-th task row, up to the next task row or to
\* row n, whichever comes first.
NotesAfterTask(k, n) ==
    NoteContents(TaskRowPos(k),
                 IF k < TaskRowsUpTo(n) THEN TaskRowPos(k + 1) ELSE n)

\* The number of notes attached to the first k tasks.
RECURSIVE AttachedNotes(_)
AttachedNotes(k) ==
    IF k = 0 THEN 0 ELSE Len(csv_tasks[k].notes) + AttachedNotes(k - 1)

(***************************************************************************)
(* C25.  While parse_csv reads the rows and when it returns, the notes of  *)
(* every task are the note rows read so far that follow its task row and   *)
(* precede the next task row, in file order, whatever section rows lie     *)
(* between; the notes before the first task row are attached to nothing:   *)
(* the number of attached notes is the number of note rows read after the  *)
(* first task row.                                                         *)
(***************************************************************************)
C25_NotesGoToLastTask ==
    csvPc \in {"rows", "done"} =>
        /\ \A k \in 1..Len(csv_tasks) :
            csv_tasks[k].notes = NotesAfterTask(k, rowIdx)
        /\ AttachedNotes(Len(csv_tasks))
            = IF Len(csv_tasks) = 0 THEN 0
              ELSE Len(NoteContents(TaskRowPos(1), rowIdx))

\* The file has been read: a task row, a note, a section row and another
\* note, and the task holds the two notes in file order.
C25_Witness ==
    /\ csvPc = "done"
    /\ Len(rows) >= 4
    /\ rows[1].type = "task"
    /\ rows[2].type = "note"
    /\ rows[3].type = "section"
    /\ rows[4].type = "note"
    /\ rows[2].content # rows[4].content
    /\ csv_tasks[1].notes = <<rows[2].content, rows[4].content>>

\* The positions of the section rows before position i.
SectionRowsBefore(i) == { j \in 1..(i - 1) : rows[j].type = "section" }

\* The name of the most recent section row before position i, 'No Section'
\* if there is none.
SectionBefore(i) ==
    IF SectionRowsBefore(i) = {} THEN "No Section"
    ELSE rows[CHOOSE j \in SectionRowsBefore(i) :
                  \A m \in SectionRowsBefore(i) : m <= j].content

\* What the sections and tasks of parse_csv are: sections, current_section,
\* tasks and last_task_id.
ParserState == <<sections, current_section, csv_tasks, last_task_id>>

(***************************************************************************)
(* C26.  While parse_csv reads the rows and when it returns, the section   *)
(* of every task is the name of the most recent section row before its     *)
(* task row, or 'No Section' if no section row precedes it; and the step   *)
(* that reads a row whose TYPE is neither section, task nor note leaves    *)
(* sections, current_section, tasks and last_task_id as they are.          *)
(***************************************************************************)
C26_SectionOfTask ==
    /\ [](csvPc \in {"rows", "done"} =>
            \A k \in 1..Len(csv_tasks) :
                csv_tasks[k].section = SectionBefore(TaskRowPos(k)))
    /\ [][ ( /\ csvPc = "rows"
             /\ rowIdx < Len(rows)
             /\ row.type \notin {"section", "task", "note"} )
           => ( /\ ParserState' = ParserState
                /\ csvPc' = csvPc
                /\ rowIdx' = rowIdx + 1 ) ]_vars

\* The file has been read: a task before any section row, a section row, a
\* row of another TYPE, and a task that is in that section.
C26_Witness ==
    /\ csvPc = "done"
    /\ Len(rows) >= 4
    /\ rows[1].type = "task"
    /\ rows[2].type = "section"
    /\ rows[3].type \notin {"section", "task", "note"}
    /\ rows[4].type = "task"
    /\ csv_tasks[1].section = "No Section"
    /\ csv_tasks[2].section = rows[2].content

(***************************************************************************)
(* update_portfolio.main (update_portfolio.py, lines 19-78).  The files    *)
(* are what main sees of them: whether they exist and what they hold.  A   *)
(* file's content is one of a few texts; <<>> stands for a file that does  *)
(* not exist, <<c>> for a file that holds c.                               *)
(***************************************************************************)

\* Largest number of runs of main.
MaxRuns == 2

\* Texts a PORTFOLIO.csv can hold.
Contents == {"a", "b"}

\* Values of datetime.now().strftime("%Y%m%d_%H%M%S"): two runs in the same
\* second get the same one.
Timestamps == {"t1", "t2"}

Files == {<<>>} \cup { <<c>> : c \in Contents }

\* The backup directory before the first run: missing, or holding some
\* backups of earlier runs.
BackupSets ==
    UNION { [T -> Contents] : T \in SUBSET Timestamps }

MainInit ==
    /\ mainPc = "start"
    /\ downloads \in Files
    /\ portfolio \in Files
    /\ backup_dir \in BOOLEAN
    /\ backups \in BackupSets
    /\ ~backup_dir => backups = <<>>
    /\ backed_up = <<>>
    /\ attempts = <<>>
    /\ entered = FALSE
    /\ launched = FALSE
    /\ runs = 1
    /\ PyIdle
    /\ JsIdle
    /\ CsvIdle
    /\ PageIdle
    /\ VpIdle

\* shutil.copy2(PORTFOLIO_CSV, backup_path): the file of that name is
\* written, or replaced if the name is taken.
CopyToBackup(bk, ts, file) ==
    [ t \in (DOMAIN bk) \cup {ts} |-> IF t = ts THEN file[1] ELSE bk[t] ]

\* Variant that creates the backup directory before it looks for the file.
MainNoDownloadMakesDir ==
    /\ mainPc = "start"
    /\ downloads = <<>>
    /\ backup_dir' = TRUE
    /\ mainPc' = "returned"
    /\ UNCHANGED <<downloads, portfolio, backups, backed_up, attempts,
                   entered, launched, runs>>
    /\ UNCHANGED <<pyVars, jsVars, csvVars, pageVars, vpVars>>

\* if not os.path.exists(DOWNLOADS_PATH): print(...); return
MainNoDownload ==
    /\ mainPc = "start"
    /\ downloads = <<>>
    /\ mainPc' = "returned"
    /\ UNCHANGED <<downloads, portfolio, backup_dir, backups, backed_up,
                   attempts, entered, launched, runs>>
    /\ UNCHANGED <<pyVars, jsVars, csvVars, pageVars, vpVars>>

\* if not os.path.exists(BACKUP_DIR): os.makedirs(BACKUP_DIR)
MainBackupDir ==
    /\ mainPc = "start"
    /\ downloads # <<>>
    /\ backup_dir' = TRUE
    /\ mainPc' = "backup"
    /\ UNCHANGED <<downloads, portfolio, backups, backed_up, attempts,
                   entered, launched, runs>>
    /\ UNCHANGED <<pyVars, jsVars, csvVars, pageVars, vpVars>>

\* Variant that moves on without copying the current file.
MainBackupSkipped ==
    /\ mainPc = "backup"
    /\ mainPc' = "move"
    /\ UNCHANGED <<downloads, portfolio, backup_dir, backups, backed_up,
                   attempts, entered, launched, runs>>
    /\ UNCHANGED <<pyVars, jsVars, csvVars, pageVars, vpVars>>

\* if os.path.exists(PORTFOLIO_CSV): timestamp = ...; shutil.copy2(...)
MainBackup ==
    /\ mainPc = "backup"
    /\ IF portfolio # <<>>
       THEN \E ts \in Timestamps :
                /\ backups' = CopyToBackup(backups, ts, portfolio)
                /\ backed_up' = portfolio
       ELSE UNCHANGED <<backups, backed_up>>
    /\ mainPc' = "move"
    /\ UNCHANGED <<downloads, portfolio, backup_dir, attempts, entered,
                   launched, runs>>
    /\ UNCHANGED <<pyVars, jsVars, csvVars, pageVars, vpVars>>

\* The same statement when shutil.copy2 raises (the backup cannot be
\* written): nothing catches the error.
MainBackupFails ==
    /\ mainPc = "backup"
    /\ portfolio # <<>>
    /\ mainPc' = "OSError"
    /\ UNCHANGED <<downloads, portfolio, backup_dir, backups, backed_up,
                   attempts, entered, launched, runs>>
    /\ UNCHANGED <<pyVars, jsVars, csvVars, pageVars, vpVars>>

\* try: shutil.move(DOWNLOADS_PATH, PORTFOLIO_CSV)   (the move succeeds)
MainMove ==
    /\ mainPc = "move"
    /\ portfolio' = downloads
    /\ downloads' = <<>>
    /\ attempts' = Append(attempts, "moved")
    /\ mainPc' = "generate"
    /\ UNCHANGED <<backup_dir, backups, backed_up, entered, launched, runs>>
    /\ UNCHANGED <<pyVars, jsVars, csvVars, pageVars, vpVars>>

\* except PermissionError: print(...)   (PORTFOLIO_CSV is locked)
MainMoveLocked ==
    /\ mainPc = "move"
    /\ attempts' = Append(attempts, "PermissionError")
    /\ mainPc' = "input"
    /\ UNCHANGED <<downloads, portfolio, backup_dir, backups, backed_up,
                   entered, launched, runs>>
    /\ UNCHANGED <<pyVars, jsVars, csvVars, pageVars, vpVars>>

\* input(): the user presses Enter
MainEnter ==
    /\ mainPc = "input"
    /\ entered' = TRUE
    /\ mainPc' = "retry"
    /\ UNCHANGED <<downloads, portfolio, backup_dir, backups, backed_up,
                   attempts, launched, runs>>
    /\ UNCHANGED <<pyVars, jsVars, csvVars, pageVars, vpVars>>

\* input(): the standard input is closed
MainInputClosed ==
    /\ mainPc = "input"
    /\ mainPc' = "EOFError"
    /\ UNCHANGED <<downloads, portfolio, backup_dir, backups, backed_up,
                   attempts, entered, launched, runs>>
    /\ UNCHANGED <<pyVars, jsVars, csvVars, pageVars, vpVars>>

\* shutil.move(DOWNLOADS_PATH, PORTFOLIO_CSV) in the except block (succeeds)
MainRetry ==
    /\ mainPc = "retry"
    /\ portfolio' = downloads
    /\ downloads' = <<>>
    /\ attempts' = Append(attempts, "moved")
    /\ mainPc' = "generate"
    /\ UNCHANGED <<backup_dir, backups, backed_up, entered, launched, runs>>
    /\ UNCHANGED <<pyVars, jsVars, csvVars, pageVars, vpVars>>

\* Variant that asks again after a failed retry.
MainRetryLockedAsksAgain ==
    /\ mainPc = "retry"
    /\ attempts' = Append(attempts, "PermissionError")
    /\ mainPc' = "input"
    /\ UNCHANGED <<downloads, portfolio, backup_dir, backups, backed_up,
                   entered, launched, runs>>
    /\ UNCHANGED <<pyVars, jsVars, csvVars, pageVars, vpVars>>

\* The same statement when the file is still locked: the PermissionError is
\* raised inside the except block, where nothing catches it.
MainRetryLocked ==
    /\ mainPc = "retry"
    /\ attempts' = Append(attempts, "PermissionError")
    /\ mainPc' = "PermissionError"
    /\ UNCHANGED <<downloads, portfolio, backup_dir, backups, backed_up,
                   entered, launched, runs>>
    /\ UNCHANGED <<pyVars, jsVars, csvVars, pageVars, vpVars>>

\* os.path.getsize(...); result = subprocess.run([python, GENERATOR_SCRIPT]);
\* if result.returncode == 0: ... else: ...; return
MainGenerate ==
    /\ mainPc = "generate"
    /\ launched' = TRUE
    /\ \E returncode \in {0, 1} :
        mainPc' = IF returncode = 0 THEN "complete" ELSE "failed"
    /\ UNCHANGED <<downloads, portfolio, backup_dir, backups, backed_up,
                   attempts, entered, runs>>
    /\ UNCHANGED <<pyVars, jsVars, csvVars, pageVars, vpVars>>

\* The positions at which a run has ended.
MainEnded ==
    {"returned", "OSError", "EOFError", "PermissionError", "complete", "failed"}

\* The script is started again; a new export may have been downloaded in
\* the meantime.
MainRunAgain ==
    /\ mainPc \in MainEnded
    /\ runs < MaxRuns
    /\ runs' = runs + 1
    /\ downloads' \in {downloads} \cup { <<c>> : c \in Contents }
    /\ mainPc' = "start"
    /\ backed_up' = <<>>
    /\ attempts' = <<>>
    /\ entered' = FALSE
    /\ launched' = FALSE
    /\ UNCHANGED <<portfolio, backup_dir, backups>>
    /\ UNCHANGED <<pyVars, jsVars, csvVars, pageVars, vpVars>>

MainNext ==
    \/ MainNoDownload
    \/ MainBackupDir
    \/ MainBackup
    \/ MainBackupFails
    \/ MainMove
    \/ MainMoveLocked
    \/ MainEnter
    \/ MainInputClosed
    \/ MainRetry
    \/ MainRetryLocked
    \/ MainGenerate
    \/ MainRunAgain

SpecMain == MainInit /\ [][MainNext]_vars

\* Some backup holds the content c.
HasBackup(c) == \E ts \in DOMAIN backups : backups[ts] = c

\* A step in which shutil.move succeeds.
MoveSucceeds ==
    /\ mainPc \in {"move", "retry"}
    /\ mainPc' = "generate"

(***************************************************************************)
(* C27.  In every run of main: the portal generator has been launched only *)
(* if the move has succeeded; and in the step in which the move succeeds,  *)
(* replacing an existing PORTFOLIO.csv, the content it replaces has been   *)
(* copied to the backup directory by this run and a backup holds it.       *)
(***************************************************************************)
C27_BackupMoveGenerate ==
    /\ [](launched =>
            (attempts # <<>> /\ attempts[Len(attempts)] = "moved"))
    /\ [](mainPc \in {"generate", "complete", "failed"} =>
            (attempts # <<>> /\ attempts[Len(attempts)] = "moved"))
    /\ [][ (MoveSucceeds /\ portfolio # <<>>)
           => ( /\ backup_dir
                /\ backed_up = portfolio
                /\ HasBackup(portfolio[1])
                /\ portfolio' = downloads ) ]_vars

\* A second run has replaced the file the first run put in place, after
\* copying it to a backup, and has launched the generator.
C27_Witness ==
    /\ runs = 2
    /\ launched
    /\ backed_up # <<>>
    /\ portfolio # backed_up
    /\ HasBackup(backed_up[1])

(***************************************************************************)
(* C28.  When the Downloads PORTFOLIO.csv does not exist, main returns     *)
(* without changing anything: the step taken from the start of such a run  *)
(* is the return, it leaves the backup directory, the backups and          *)
(* PORTFOLIO.csv as they are, and a run that has returned this way has     *)
(* made no backup, no move and has not launched the generator.             *)
(***************************************************************************)
C28_NoDownloadNoChange ==
    /\ [][ (mainPc = "start" /\ downloads = <<>>)
           => ( /\ mainPc' = "returned"
                /\ backup_dir' = backup_dir
                /\ backups' = backups
                /\ portfolio' = portfolio
                /\ downloads' = downloads
                /\ launched' = FALSE ) ]_vars
    /\ [](mainPc = "returned" =>
            /\ downloads = <<>>
            /\ backed_up = <<>>
            /\ attempts = <<>>
            /\ ~launched)

\* The first run has returned for want of a download: PORTFOLIO.csv exists
\* and there is still no backup directory.
C28_Witness ==
    /\ mainPc = "returned"
    /\ runs = 1
    /\ portfolio # <<>>
    /\ ~backup_dir
    /\ backups = <<>>

(***************************************************************************)
(* C29.  main attempts the move at most twice: the second attempt is made  *)
(* only after a PermissionError on the first and after the user has        *)
(* pressed Enter; if the second attempt fails too, the run has ended with  *)
(* the PermissionError and the generator has not been launched.            *)
(***************************************************************************)
C29_AtMostTwoAttempts ==
    /\ Len(attempts) <= 2
    /\ (mainPc = "retry" \/ Len(attempts) = 2) =>
            (attempts[1] = "PermissionError" /\ entered)
    /\ (Len(attempts) = 2 /\ attempts[2] = "PermissionError") =>
            (mainPc = "PermissionError" /\ ~launched)
    /\ mainPc = "PermissionError" =>
            (attempts = <<"PermissionError", "PermissionError">> /\ ~launched)

\* Both attempts have failed: the run has ended, the Downloads file and the
\* old PORTFOLIO.csv are where they were, and the old file has a backup.
C29_Witness ==
    /\ mainPc = "PermissionError"
    /\ entered
    /\ Len(attempts) = 2
    /\ downloads # <<>>
    /\ portfolio # <<>>
    /\ backed_up = portfolio

(***************************************************************************)
(* verify_priorities (verify_priorities.py, lines 5-33).  A row keeps the  *)
(* columns the script reads: TYPE, and CONTENT and PRIORITY as the         *)
(* characters of the field.                                                *)
(***************************************************************************)

\* Largest number of rows of the file.
MaxVpRows == 2

\* CONTENT fields: the tag in upper, lower and mixed case, the word without
\* the '@', the tag cut short, and an empty field.
VpContents ==
    { <<"@", "P", "R", "O", "J", "E", "C", "T">>,
      <<"x", " ", "@", "p", "r", "o", "j", "e", "c", "t", " ">>,
      <<"@", "P", "r", "o", "J", "e", "c", "t">>,
      <<"P", "R", "O", "J", "E", "C", "T">>,
      <<"@", "P", "R", "O", "J", "E", "C">>,
      <<>> }

\* PRIORITY fields: empty, integers (one with a blank before it), a field
\* that is no integer, a blank field.
VpPriorities == { <<>>, <<"4">>, <<" ", "2">>, <<"x">>, <<" ">> }

VpRowSet ==
    { [type |-> "task", content |-> c, priority |-> p] :
        c \in VpContents, p \in VpPriorities }
    \cup { [type |-> "note", content |-> <<"x">>, priority |-> <<>>] }

\* The lower-case letters of the fields and their upper-case letters.
CasePairs ==
    { <<"p", "P">>, <<"r", "R">>, <<"o", "O">>, <<"j", "J">>, <<"e", "E">>,
      <<"c", "C">>, <<"t", "T">>, <<"x", "X">> }

\* str.upper()
Upper(str) ==
    [ i \in 1..Len(str) |->
        IF \E p \in CasePairs : p[1] = str[i]
        THEN (CHOOSE p \in CasePairs : p[1] = str[i])[2]
        ELSE str[i] ]

\* str.strip(): the field without the blanks at its ends
RECURSIVE Strip(_)
Strip(str) ==
    IF str = <<>> THEN <<>>
    ELSE IF Head(str) = " " THEN Strip(Tail(str))
    ELSE IF str[Len(str)] = " " THEN Strip(SubSeq(str, 1, Len(str) - 1))
    ELSE str

\* needle in hay
Contains(hay, needle) ==
    \E i \in 0..(Len(hay) - Len(needle)) :
        SubSeq(hay, i + 1, i + Len(needle)) = needle

ProjectTag == <<"@", "P", "R", "O", "J", "E", "C", "T">>

\* if priority_str == '': 1 else: try: int(priority_str) except: 1
CsvPriority(priority_str) ==
    IF priority_str = <<>> THEN 1
    ELSE IF IsIntLiteral(priority_str) THEN IntOf(priority_str)
    ELSE 1

\* Variant that looks for the tag in the content as it is written.
HasProjectTagCaseSensitive(content) == Contains(content, ProjectTag)

\* '@PROJECT' in content.upper()
HasProjectTag(content) == Contains(Upper(content), ProjectTag)

\* if '@PROJECT' in content.upper(): final_priority = 4
\* else: final_priority = csv_priority
FinalPriority(content, csv_priority) ==
    IF HasProjectTag(content) THEN 4 ELSE csv_priority

\* content[:50]
First50(str) == SubSeq(str, 1, IF Len(str) < 50 THEN Len(str) ELSE 50)

\* The row the for loop is at.
vpRow == vpRows[vpIdx + 1]

VpInit ==
    /\ vpRows \in UNION { [1..n -> VpRowSet] : n \in 0..MaxVpRows }
    /\ vpPc = "rows"
    /\ vpIdx = 0
    /\ vpTasks = <<>>
    /\ PyIdle
    /\ JsIdle
    /\ CsvIdle
    /\ PageIdle
    /\ MainIdle

\* if row.get('TYPE') == 'task': ...; tasks.append({...})
VpTask ==
    /\ vpPc = "rows"
    /\ vpIdx < Len(vpRows)
    /\ vpRow.type = "task"
    /\ LET content == Strip(vpRow.content)
           priority_str == Strip(vpRow.priority)
           csv_priority == CsvPriority(priority_str)
           final_priority == FinalPriority(content, csv_priority)
       IN  vpTasks' = Append(vpTasks,
                             [content |-> First50(content),
                              csv_priority |-> csv_priority,
                              final_priority |-> final_priority,
                              overridden |-> final_priority # csv_priority])
    /\ vpIdx' = vpIdx + 1
    /\ UNCHANGED <<vpRows, vpPc>>
    /\ UNCHANGED <<pyVars, jsVars, csvVars, pageVars, mainVars>>

\* A row of another TYPE
VpSkip ==
    /\ vpPc = "rows"
    /\ vpIdx < Len(vpRows)
    /\ vpRow.type # "task"
    /\ vpIdx' = vpIdx + 1
    /\ UNCHANGED <<vpRows, vpPc, vpTasks>>
    /\ UNCHANGED <<pyVars, jsVars, csvVars, pageVars, mainVars>>

\* The file is read: the report is written from tasks.
VpReport ==
    /\ vpPc = "rows"
    /\ vpIdx = Len(vpRows)
    /\ vpPc' = "done"
    /\ UNCHANGED <<vpRows, vpIdx, vpTasks>>
    /\ UNCHANGED <<pyVars, jsVars, csvVars, pageVars, mainVars>>

VpNext ==
    \/ VpTask
    \/ VpSkip
    \/ VpReport

SpecVp == VpInit /\ [][VpNext]_vars

\* The position in the file of the k-th task row.
VpTaskRowPos(k) ==
    CHOOSE i \in 1..Len(vpRows) :
        /\ vpRows[i].type = "task"
        /\ Cardinality({ j \in 1..i : vpRows[j].type = "task" }) = k

\* Two characters are the same letter, whatever their case.
SameLetter(a, b) == a = b \/ <<a, b>> \in CasePairs \/ <<b, a>> \in CasePairs

\* The field holds '@PROJECT' in some mix of cases.
HoldsTagInAnyCase(field) ==
    \E i \in 0..(Len(field) - Len(ProjectTag)) :
        \A j \in 1..Len(ProjectTag) : SameLetter(field[i + j], ProjectTag[j])

\* The PRIORITY field is empty (blanks aside) or is no integer.
NoIntegerIn(field) == Strip(field) = <<>> \/ ~IsIntLiteral(Strip(field))

(***************************************************************************)
(* C30.  In verify_priorities, for every task row read so far: the CSV     *)
(* priority is 1 when the PRIORITY field is empty or no integer, and the   *)
(* integer otherwise; the final priority is 4 when the content holds       *)
(* '@PROJECT' in any case, and the CSV priority otherwise; and the row is  *)
(* marked overridden exactly when the two differ.                          *)
(***************************************************************************)
C30_ProjectOverride ==
    vpPc \in {"rows", "done"} =>
        /\ Len(vpTasks) = Cardinality({ j \in 1..vpIdx : vpRows[j].type = "task" })
        /\ \A k \in 1..Len(vpTasks) :
            LET r == vpRows[VpTaskRowPos(k)]
                t == vpTasks[k]
            IN  /\ t.csv_priority = IF NoIntegerIn(r.priority) THEN 1
                                    ELSE IntOf(Strip(r.priority))
                /\ t.final_priority = IF HoldsTagInAnyCase(r.content) THEN 4
                                      ELSE t.csv_priority
                /\ t.overridden <=> (t.final_priority # t.csv_priority)

\* The report is written from two task rows: one holds the tag in lower or
\* mixed case with a priority other than 4 and is overridden; the other
\* holds the tag with priority 4 and is not.
C30_Witness ==
    /\ vpPc = "done"
    /\ \E k \in 1..Len(vpTasks) :
        /\ vpTasks[k].overridden
        /\ vpTasks[k].csv_priority # 4
        /\ ~Contains(vpRows[VpTaskRowPos(k)].content, ProjectTag)
    /\ \E k \in 1..Len(vpTasks) :
        /\ ~vpTasks[k].overridden
        /\ vpTasks[k].final_priority = 4
        /\ HoldsTagInAnyCase(vpRows[VpTaskRowPos(k)].content)

====
